---- MODULE Spec2Model ----
(***************************************************************************)
(* Structured logger (src/env.ts, the hono-logger part) and response       *)
(* envelope builder (src/lib/utils/response-utils.ts) of hono-starter.     *)
(*                                                                         *)
(* JavaScript values are tagged records; an object is the sequence of its  *)
(* own properties in insertion order.                                      *)
(***************************************************************************)
EXTENDS Integers, Sequences, FiniteSets, TLC

VARIABLES processEnv, env, console, sentry, effects, req, ret, wire, parsed

vars == <<processEnv, env, console, sentry, effects, req, ret, wire, parsed>>

(***************************************************************************)
(* Bounds                                                                  *)
(***************************************************************************)
\* number of logger calls in one run
MaxCalls == 2
\* longest caller-supplied issues array
MaxIssues == 2
\* console lines and collector calls after which no passthrough run goes on
MaxEffects == 1

(***************************************************************************)
(* JavaScript values                                                       *)
(***************************************************************************)
Undefined == [t |-> "undefined"]
Null == [t |-> "null"]
Bool(b) == [t |-> "boolean", b |-> b]
Num(n) == [t |-> "number", n |-> n]
Str(s) == [t |-> "string", s |-> s]
Obj(entries) == [t |-> "object", o |-> entries]
Arr(elems) == [t |-> "array", a |-> elems]
Prop(k, v) == [k |-> k, v |-> v]
\* the completion value of an expression that raises
Throw == [t |-> "throw"]
\* a reference back to an object that contains it
Cycle == [t |-> "cycle"]
BigInt(n) == [t |-> "bigint", n |-> n]

\* ToBoolean: undefined, null, false, 0 and "" are falsy
Truthy(v) ==
  CASE v.t = "undefined" -> FALSE
    [] v.t = "null" -> FALSE
    [] v.t = "boolean" -> v.b
    [] v.t = "number" -> v.n # 0
    [] v.t = "string" -> v.s # ""
    [] OTHER -> TRUE

\* a || b
Or(a, b) == IF Truthy(a) THEN a ELSE b

\* a && b
And(a, b) == IF Truthy(a) THEN b ELSE a

\* a === b on primitives; an operand that raised raises
StrictEq(a, b) == IF a = Throw \/ b = Throw THEN Throw ELSE Bool(a = b)

\* destructuring default: name = d applies when the property is undefined
Default(v, d) == IF v = Undefined THEN d ELSE v

\* a ?? b
Nullish(a, b) == IF a.t \in {"undefined", "null"} THEN b ELSE a

Keys(obj) == [i \in 1..Len(obj.o) |-> obj.o[i].k]

HasProp(obj, k) == \E i \in 1..Len(obj.o) : obj.o[i].k = k

\* value.key: raises on null and undefined, undefined on other primitives
GetProp(value, k) ==
  CASE value.t \in {"undefined", "null"} -> Throw
    [] value.t = "object" ->
         IF HasProp(value, k)
         THEN value.o[CHOOSE i \in 1..Len(value.o) : value.o[i].k = k].v
         ELSE Undefined
    [] OTHER -> Undefined

\* obj.key = v: an existing property keeps its place
SetProp(obj, k, v) ==
  IF HasProp(obj, k)
  THEN Obj([i \in 1..Len(obj.o) |-> IF obj.o[i].k = k THEN Prop(k, v) ELSE obj.o[i]])
  ELSE Obj(Append(obj.o, Prop(k, v)))

RECURSIVE SetAll(_, _, _)
SetAll(obj, entries, i) ==
  IF i > Len(entries) THEN obj
  ELSE SetAll(SetProp(obj, entries[i].k, entries[i].v), entries, i + 1)

\* { ...a, ...b }: the properties of b are assigned over those of a
Spread(a, b) == SetAll(a, b.o, 1)

(***************************************************************************)
(* Configuration and inputs                                                *)
(***************************************************************************)
NODE_ENVS == {"development", "test", "production"}

\* the parsed environment
Env == [SENTRY_ENABLED : BOOLEAN, SENTRY_ENABLE_LOGS : BOOLEAN, NODE_ENV : NODE_ENVS]

\* z.coerce.boolean(): Boolean(input)
coerce_boolean(input) == Truthy(input)

\* schema.default(d): d for a missing variable, else the schema's own result
default(input, d, value) == IF input = Undefined THEN d ELSE value

\* EnvSchema.safeParse(process.env).data, for an environment that passes
EnvSchema(raw) ==
  [ NODE_ENV |-> default(raw.NODE_ENV, "development", raw.NODE_ENV.s),
    SENTRY_ENABLED |->
      default(raw.SENTRY_ENABLED, FALSE, coerce_boolean(raw.SENTRY_ENABLED)),
    SENTRY_ENABLE_LOGS |->
      default(raw.SENTRY_ENABLE_LOGS, TRUE, coerce_boolean(raw.SENTRY_ENABLE_LOGS)) ]

\* process.env: one setting for each parsed environment
ProcessEnvs ==
  [ NODE_ENV : {Str(e) : e \in NODE_ENVS},
    SENTRY_ENABLED : {Undefined, Str("true")},
    SENTRY_ENABLE_LOGS : {Undefined, Str("")} ]

\* process.env as the README writes it: variables unset, "true" or "false"
DocumentedEnvs ==
  [ NODE_ENV : {Undefined} \cup {Str(e) : e \in NODE_ENVS},
    SENTRY_ENABLED : {Undefined, Str("true"), Str("false")},
    SENTRY_ENABLE_LOGS : {Undefined, Str("true"), Str("false")} ]

\* the tokens nanoid() may return
nanoid == {"V1StGXR8", "Uakgb_J5"}

Messages == {"Payment failed", "Rate limit"}

\* contexts a caller passes: none, empty, plain, and one with its own logId
LogContexts ==
  { Undefined,
    Obj(<<>>),
    Obj(<<Prop("userId", Str("123"))>>),
    Obj(<<Prop("logId", Str("caller")), Prop("userId", Str("123"))>>) }

\* new Date().toUTCString()
toUTCString == "Tue, 03 Nov 2026 20:54:00 GMT"

\* new Date().toISOString()
toISOString == "2026-11-03T20:54:00.000Z"

(***************************************************************************)
(* JSON.stringify as the sequence of tokens of the text                    *)
(***************************************************************************)
Punct(c) == [tok |-> "punct", c |-> c]
Lit(v) == [tok |-> "literal", v |-> v]

RECURSIVE stringify(_)
RECURSIVE stringifyProps(_, _, _)
RECURSIVE stringifyElems(_, _)

\* a property whose value is undefined is left out
stringifyProps(entries, i, first) ==
  IF i > Len(entries) THEN <<>>
  ELSE IF entries[i].v.t = "undefined" THEN stringifyProps(entries, i + 1, first)
  ELSE (IF first THEN <<>> ELSE <<Punct(",")>>)
       \o <<Lit(Str(entries[i].k)), Punct(":")>>
       \o stringify(entries[i].v)
       \o stringifyProps(entries, i + 1, FALSE)

\* an array element that is undefined is written as null
stringifyElems(elems, i) ==
  IF i > Len(elems) THEN <<>>
  ELSE (IF i = 1 THEN <<>> ELSE <<Punct(",")>>)
       \o (IF elems[i].t = "undefined" THEN <<Lit(Null)>> ELSE stringify(elems[i]))
       \o stringifyElems(elems, i + 1)

stringify(v) ==
  CASE v.t = "object" -> <<Punct("{")>> \o stringifyProps(v.o, 1, TRUE) \o <<Punct("}")>>
    [] v.t = "array" -> <<Punct("[")>> \o stringifyElems(v.a, 1) \o <<Punct("]")>>
    [] OTHER -> <<Lit(v)>>

RECURSIVE stringifyError(_)
\* the message of the TypeError JSON.stringify(v) raises, "" if it raises none
stringifyError(v) ==
  CASE v.t = "cycle" -> "Converting circular structure to JSON"
    [] v.t = "bigint" -> "Do not know how to serialize a BigInt"
    [] v.t = "object" ->
         IF \E i \in 1..Len(v.o) : stringifyError(v.o[i].v) # ""
         THEN stringifyError(v.o[CHOOSE i \in 1..Len(v.o) :
                                   /\ stringifyError(v.o[i].v) # ""
                                   /\ \A j \in 1..(i - 1) : stringifyError(v.o[j].v) = ""].v)
         ELSE ""
    [] v.t = "array" ->
         IF \E i \in 1..Len(v.a) : stringifyError(v.a[i]) # ""
         THEN stringifyError(v.a[CHOOSE i \in 1..Len(v.a) :
                                   /\ stringifyError(v.a[i]) # ""
                                   /\ \A j \in 1..(i - 1) : stringifyError(v.a[j]) = ""])
         ELSE ""
    [] OTHER -> ""

(***************************************************************************)
(* JSON.parse of a token sequence written by JSON.stringify                *)
(***************************************************************************)
IsPunct(token, c) == token.tok = "punct" /\ token.c = c

RECURSIVE parseValue(_, _)
RECURSIVE parseMembers(_, _, _)
RECURSIVE parseElems(_, _, _)

\* members up to the closing brace; a repeated key keeps its last value
parseMembers(toks, i, acc) ==
  IF IsPunct(toks[i], "}") THEN [v |-> acc, next |-> i + 1]
  ELSE IF IsPunct(toks[i], ",") THEN parseMembers(toks, i + 1, acc)
  ELSE LET member == parseValue(toks, i + 2)
       IN parseMembers(toks, member.next, SetProp(acc, toks[i].v.s, member.v))

parseElems(toks, i, acc) ==
  IF IsPunct(toks[i], "]") THEN [v |-> Arr(acc), next |-> i + 1]
  ELSE IF IsPunct(toks[i], ",") THEN parseElems(toks, i + 1, acc)
  ELSE LET elem == parseValue(toks, i)
       IN parseElems(toks, elem.next, Append(acc, elem.v))

parseValue(toks, i) ==
  IF IsPunct(toks[i], "{") THEN parseMembers(toks, i + 1, Obj(<<>>))
  ELSE IF IsPunct(toks[i], "[") THEN parseElems(toks, i + 1, <<>>)
  ELSE [v |-> toks[i].v, next |-> i + 1]

parse(toks) == parseValue(toks, 1).v

(***************************************************************************)
(* Logger                                                                  *)
(***************************************************************************)
SENTRY_LEVELS_mut_C2 ==
  [error |-> "fatal", warn |-> "warning", log |-> "info", debug |-> "debug", verbose |-> "debug"]

SENTRY_LEVELS ==
  [error |-> "error", warn |-> "warning", log |-> "info", debug |-> "debug", verbose |-> "debug"]

\* the string formatContext returns: "", or a newline followed by the JSON
\* text or by the placeholder; raised when the call completes abruptly
ContextStr(raised, newline, json, placeholder) ==
  [raised |-> raised, newline |-> newline, json |-> json, placeholder |-> placeholder]

\* without the try/catch
formatContext_mut_C15(context) ==
  IF ~Truthy(context) \/ Len(Keys(context)) = 0
  THEN ContextStr(FALSE, FALSE, <<>>, "")
  ELSE IF stringifyError(context) = ""
  THEN ContextStr(FALSE, TRUE, stringify(context), "")
  ELSE ContextStr(TRUE, FALSE, <<>>, "")

\* without the test for an empty mapping
formatContext_mut_C16(context) ==
  IF ~Truthy(context)
  THEN ContextStr(FALSE, FALSE, <<>>, "")
  ELSE IF stringifyError(context) = ""
  THEN ContextStr(FALSE, TRUE, stringify(context), "")
  ELSE ContextStr(FALSE, TRUE, <<>>,
                  "[Context serialization failed: " \o stringifyError(context) \o "]")

formatContext(context) ==
  IF ~Truthy(context) \/ Len(Keys(context)) = 0
  THEN ContextStr(FALSE, FALSE, <<>>, "")
  ELSE IF stringifyError(context) = ""
  THEN ContextStr(FALSE, TRUE, stringify(context), "")
  ELSE ContextStr(FALSE, TRUE, <<>>,
                  "[Context serialization failed: " \o stringifyError(context) \o "]")

createLogEntry_mut_C5(level, message, context, id) ==
  [ logId |-> IF level \in {"error", "warn"} THEN Str(id) ELSE Undefined,
    timestamp |-> toUTCString,
    level |-> level,
    message |-> message,
    context |-> Or(context, Obj(<<>>)),
    contextStr |-> formatContext(context),
    fullMessage |-> <<message, formatContext(context)>> ]

createLogEntry(level, message, context, id) ==
  [ logId |-> IF level \in {"error", "warn", "verbose"} THEN Str(id) ELSE Undefined,
    timestamp |-> toUTCString,
    level |-> level,
    message |-> message,
    context |-> Or(context, Obj(<<>>)),
    contextStr |-> formatContext(context),
    fullMessage |-> <<message, formatContext(context)>> ]

\* the line handed to console.log: timestamp, identifier, level tag, text
ConsoleLine(timestamp, logId, tag, text) ==
  [timestamp |-> timestamp, logId |-> logId, tag |-> tag, text |-> text]

\* Sentry.addBreadcrumb({message, level, category, data})
addBreadcrumb(message, level, category, data) ==
  [op |-> "addBreadcrumb", message |-> message, level |-> level,
   category |-> category, data |-> data]

\* Sentry.captureException(new Error(message), {tags, level, extra})
captureException(message, tags, level, extra) ==
  [op |-> "captureException", message |-> message, tags |-> tags,
   level |-> level, extra |-> extra]

\* Sentry.captureMessage(message, {level, tags, extra})
captureMessage(message, level, tags, extra) ==
  [op |-> "captureMessage", message |-> message, level |-> level,
   tags |-> tags, extra |-> extra]

\* the body of a level call after createLogEntry: the "Console logging"
\* statement, then the calls of the "Sentry logging" block, in program order
ConsoleThenSentry_mut_C21(line, calls) == calls \o <<line>>
ConsoleThenSentry(line, calls) == <<line>> \o calls

\* the call returns normally: building the entry raised nothing
Completes(logEntry) == ~logEntry.contextStr.raised

\* the frame of the running level call: its arguments and the entry it built
CallFrame(op, message, context, logEntry) ==
  [op |-> op, message |-> message, context |-> context, logEntry |-> logEntry]

\* the "Sentry logging" block of logger.error: the collector calls it makes
error_sentry(logEntry) ==
  IF env.SENTRY_ENABLED /\ env.SENTRY_ENABLE_LOGS
  THEN << addBreadcrumb(logEntry.message, SENTRY_LEVELS.error, "logger",
                        Spread(Obj(<<Prop("logId", logEntry.logId)>>), logEntry.context)),
          captureException(logEntry.message,
                           Obj(<<Prop("source", Str("custom-logger")),
                                 Prop("logId", logEntry.logId)>>),
                           "error", logEntry.context) >>
  ELSE <<>>

logger_error(message, context, id) ==
  LET logEntry == createLogEntry("error", message, context, id) IN
  /\ Len(console) < MaxCalls
  /\ console' = IF Completes(logEntry)
                THEN Append(console, ConsoleLine(logEntry.timestamp, logEntry.logId, "ERROR",
                                            logEntry.fullMessage))
                ELSE console
  /\ sentry' = IF Completes(logEntry) THEN sentry \o error_sentry(logEntry) ELSE sentry
  /\ effects' = IF Completes(logEntry)
                THEN ConsoleThenSentry(
                       ConsoleLine(logEntry.timestamp, logEntry.logId, "ERROR", logEntry.fullMessage),
                       error_sentry(logEntry))
                ELSE <<>>
  /\ req' = CallFrame("error", message, context, logEntry)
  /\ ret' = IF Completes(logEntry) THEN Undefined ELSE Throw
  /\ UNCHANGED <<processEnv, env, wire, parsed>>

debug_sentry_mut_C1(logEntry) ==
  IF env.SENTRY_ENABLED /\ env.SENTRY_ENABLE_LOGS
  THEN << addBreadcrumb(logEntry.message, SENTRY_LEVELS.debug, "logger", logEntry.context) >>
  ELSE <<>>

\* the "Sentry logging" block of logger.debug
debug_sentry(logEntry) ==
  IF env.SENTRY_ENABLED /\ env.SENTRY_ENABLE_LOGS /\ env.NODE_ENV = "development"
  THEN << addBreadcrumb(logEntry.message, SENTRY_LEVELS.debug, "logger", logEntry.context) >>
  ELSE <<>>

logger_debug(message, context, id) ==
  LET logEntry == createLogEntry("debug", message, context, id) IN
  /\ Len(console) < MaxCalls
  /\ console' = IF Completes(logEntry)
                THEN Append(console, ConsoleLine(logEntry.timestamp, Undefined, "DEBUG",
                                            logEntry.fullMessage))
                ELSE console
  /\ sentry' = IF Completes(logEntry) THEN sentry \o debug_sentry(logEntry) ELSE sentry
  /\ effects' = IF Completes(logEntry)
                THEN ConsoleThenSentry(
                       ConsoleLine(logEntry.timestamp, Undefined, "DEBUG", logEntry.fullMessage),
                       debug_sentry(logEntry))
                ELSE <<>>
  /\ req' = CallFrame("debug", message, context, logEntry)
  /\ ret' = IF Completes(logEntry) THEN Undefined ELSE Throw
  /\ UNCHANGED <<processEnv, env, wire, parsed>>

log_sentry_mut_C4(logEntry) ==
  IF env.SENTRY_ENABLED /\ env.SENTRY_ENABLE_LOGS
  THEN << addBreadcrumb(logEntry.message, SENTRY_LEVELS.log, "logger", logEntry.context),
          captureMessage(logEntry.message, "info",
                         Obj(<<Prop("source", Str("custom-logger"))>>), logEntry.context) >>
  ELSE <<>>

\* the "Sentry logging" block of logger.log
log_sentry(logEntry) ==
  IF env.SENTRY_ENABLED /\ env.SENTRY_ENABLE_LOGS
  THEN << addBreadcrumb(logEntry.message, SENTRY_LEVELS.log, "logger", logEntry.context) >>
  ELSE <<>>

logger_log(message, context, id) ==
  LET logEntry == createLogEntry("log", message, context, id) IN
  /\ Len(console) < MaxCalls
  /\ console' = IF Completes(logEntry)
                THEN Append(console, ConsoleLine(logEntry.timestamp, Undefined, "LOG",
                                            logEntry.fullMessage))
                ELSE console
  /\ sentry' = IF Completes(logEntry) THEN sentry \o log_sentry(logEntry) ELSE sentry
  /\ effects' = IF Completes(logEntry)
                THEN ConsoleThenSentry(
                       ConsoleLine(logEntry.timestamp, Undefined, "LOG", logEntry.fullMessage),
                       log_sentry(logEntry))
                ELSE <<>>
  /\ req' = CallFrame("log", message, context, logEntry)
  /\ ret' = IF Completes(logEntry) THEN Undefined ELSE Throw
  /\ UNCHANGED <<processEnv, env, wire, parsed>>

warn_sentry_mut_C3(logEntry) ==
  IF env.SENTRY_ENABLED
  THEN << addBreadcrumb(logEntry.message, SENTRY_LEVELS.warn, "logger",
                        Spread(Obj(<<Prop("logId", logEntry.logId)>>), logEntry.context)),
          captureMessage(logEntry.message, "warning",
                         Obj(<<Prop("source", Str("custom-logger")),
                               Prop("logId", logEntry.logId)>>),
                         logEntry.context) >>
  ELSE <<>>

\* the "Sentry logging" block of logger.warn
warn_sentry(logEntry) ==
  IF env.SENTRY_ENABLED /\ env.SENTRY_ENABLE_LOGS
  THEN << addBreadcrumb(logEntry.message, SENTRY_LEVELS.warn, "logger",
                        Spread(Obj(<<Prop("logId", logEntry.logId)>>), logEntry.context)),
          captureMessage(logEntry.message, "warning",
                         Obj(<<Prop("source", Str("custom-logger")),
                               Prop("logId", logEntry.logId)>>),
                         logEntry.context) >>
  ELSE <<>>

logger_warn(message, context, id) ==
  LET logEntry == createLogEntry("warn", message, context, id) IN
  /\ Len(console) < MaxCalls
  /\ console' = IF Completes(logEntry)
                THEN Append(console, ConsoleLine(logEntry.timestamp, logEntry.logId, "WARN",
                                            logEntry.fullMessage))
                ELSE console
  /\ sentry' = IF Completes(logEntry) THEN sentry \o warn_sentry(logEntry) ELSE sentry
  /\ effects' = IF Completes(logEntry)
                THEN ConsoleThenSentry(
                       ConsoleLine(logEntry.timestamp, logEntry.logId, "WARN", logEntry.fullMessage),
                       warn_sentry(logEntry))
                ELSE <<>>
  /\ req' = CallFrame("warn", message, context, logEntry)
  /\ ret' = IF Completes(logEntry) THEN Undefined ELSE Throw
  /\ UNCHANGED <<processEnv, env, wire, parsed>>

\* the "Sentry logging" block of logger.verbose
verbose_sentry(logEntry) ==
  IF env.SENTRY_ENABLED /\ env.SENTRY_ENABLE_LOGS /\ env.NODE_ENV = "development"
  THEN << addBreadcrumb(logEntry.message, SENTRY_LEVELS.verbose, "logger",
                        Spread(Obj(<<Prop("logId", logEntry.logId)>>), logEntry.context)) >>
  ELSE <<>>

logger_verbose(message, context, id) ==
  LET logEntry == createLogEntry("verbose", message, context, id) IN
  /\ Len(console) < MaxCalls
  /\ console' = IF Completes(logEntry)
                THEN Append(console, ConsoleLine(logEntry.timestamp, logEntry.logId, "VERBOSE",
                                            logEntry.fullMessage))
                ELSE console
  /\ sentry' = IF Completes(logEntry) THEN sentry \o verbose_sentry(logEntry) ELSE sentry
  /\ effects' = IF Completes(logEntry)
                THEN ConsoleThenSentry(
                       ConsoleLine(logEntry.timestamp, logEntry.logId, "VERBOSE", logEntry.fullMessage),
                       verbose_sentry(logEntry))
                ELSE <<>>
  /\ req' = CallFrame("verbose", message, context, logEntry)
  /\ ret' = IF Completes(logEntry) THEN Undefined ELSE Throw
  /\ UNCHANGED <<processEnv, env, wire, parsed>>

(***************************************************************************)
(* Specification of the logger                                             *)
(***************************************************************************)
NoCall == [op |-> "none"]

Init ==
  /\ processEnv \in ProcessEnvs
  /\ env = EnvSchema(processEnv)
  /\ console = <<>>
  /\ sentry = <<>>
  /\ effects = <<>>
  /\ req = NoCall
  /\ ret = Undefined
  /\ wire = <<>>
  /\ parsed = Undefined

Error == \E m \in Messages, c \in LogContexts, id \in nanoid : logger_error(m, c, id)
Debug == \E m \in Messages, c \in LogContexts, id \in nanoid : logger_debug(m, c, id)
Log == \E m \in Messages, c \in LogContexts, id \in nanoid : logger_log(m, c, id)
Warn == \E m \in Messages, c \in LogContexts, id \in nanoid : logger_warn(m, c, id)
Verbose == \E m \in Messages, c \in LogContexts, id \in nanoid : logger_verbose(m, c, id)

Next == Error \/ Debug \/ Log \/ Warn \/ Verbose

Spec == Init /\ [][Next]_vars

(***************************************************************************)
(* logger.sentry: the passthroughs to the collector                        *)
(***************************************************************************)
\* a collector call made by a passthrough, with its arguments
SentryCall(op, args) == [op |-> op, args |-> args]

\* a further call may start: console lines and collector calls so far
MayCall == Len(console) + Len(sentry) < MaxEffects

sentry_captureException(error, context, id) ==
  LET logId == Str(id) IN
  /\ MayCall
  /\ console' = Append(console, ConsoleLine(toUTCString, logId, "EXCEPTION",
                                            <<GetProp(error, "message").s,
                                              ContextStr(FALSE, FALSE, <<>>, "")>>))
  /\ sentry' = IF env.SENTRY_ENABLED
               THEN Append(sentry, SentryCall("captureException",
                      <<error, Obj(<<Prop("tags", Obj(<<Prop("source", Str("custom-logger")),
                                                        Prop("logId", logId)>>)),
                                     Prop("extra", context)>>)>>))
               ELSE sentry
  /\ effects' = SubSeq(console', Len(console) + 1, Len(console'))
                \o SubSeq(sentry', Len(sentry) + 1, Len(sentry'))
  /\ req' = [op |-> "sentry.captureException", error |-> error, context |-> context]
  /\ ret' = Undefined
  /\ UNCHANGED <<processEnv, env, wire, parsed>>

sentry_setContext(key, context) ==
  /\ MayCall
  /\ sentry' = IF env.SENTRY_ENABLED
               THEN Append(sentry, SentryCall("setContext", <<Str(key), context>>))
               ELSE sentry
  /\ req' = [op |-> "sentry.setContext", key |-> key, context |-> context]
  /\ ret' = Undefined
  /\ effects' = SubSeq(sentry', Len(sentry) + 1, Len(sentry'))
  /\ UNCHANGED <<processEnv, env, console, wire, parsed>>

sentry_setUser(user) ==
  /\ MayCall
  /\ sentry' = IF env.SENTRY_ENABLED
               THEN Append(sentry, SentryCall("setUser", <<user>>))
               ELSE sentry
  /\ req' = [op |-> "sentry.setUser", user |-> user]
  /\ ret' = Undefined
  /\ effects' = SubSeq(sentry', Len(sentry) + 1, Len(sentry'))
  /\ UNCHANGED <<processEnv, env, console, wire, parsed>>

sentry_setTag(key, value) ==
  /\ MayCall
  /\ sentry' = IF env.SENTRY_ENABLED
               THEN Append(sentry, SentryCall("setTag", <<Str(key), Str(value)>>))
               ELSE sentry
  /\ req' = [op |-> "sentry.setTag", key |-> key, value |-> value]
  /\ ret' = Undefined
  /\ effects' = SubSeq(sentry', Len(sentry) + 1, Len(sentry'))
  /\ UNCHANGED <<processEnv, env, console, wire, parsed>>

\* level defaults to "info"
sentry_captureMessage(message, level, extra, id) ==
  LET logId == Str(id) IN
  /\ MayCall
  /\ sentry' = IF env.SENTRY_ENABLED
               THEN Append(sentry, SentryCall("captureMessage",
                      <<Str(message),
                        Obj(<<Prop("level", Default(level, Str("info"))),
                              Prop("tags", Obj(<<Prop("source", Str("custom-logger")),
                                                 Prop("logId", logId)>>)),
                              Prop("extra", extra)>>)>>))
               ELSE sentry
  /\ req' = [op |-> "sentry.captureMessage", message |-> message, level |-> level,
             extra |-> extra]
  /\ ret' = Undefined
  /\ effects' = SubSeq(sentry', Len(sentry) + 1, Len(sentry'))
  /\ UNCHANGED <<processEnv, env, console, wire, parsed>>

\* category defaults to "custom", level to "info"
sentry_addBreadcrumb(message, category, level, data) ==
  /\ MayCall
  /\ sentry' = IF env.SENTRY_ENABLED
               THEN Append(sentry, SentryCall("addBreadcrumb",
                      <<Obj(<<Prop("message", Str(message)),
                              Prop("category", Default(category, Str("custom"))),
                              Prop("level", Default(level, Str("info"))),
                              Prop("data", data)>>)>>))
               ELSE sentry
  /\ req' = [op |-> "sentry.addBreadcrumb", message |-> message, category |-> category,
             level |-> level, data |-> data]
  /\ ret' = Undefined
  /\ effects' = SubSeq(sentry', Len(sentry) + 1, Len(sentry'))
  /\ UNCHANGED <<processEnv, env, console, wire, parsed>>

(***************************************************************************)
(* Specification of the whole logger: level calls with contexts that       *)
(* JSON.stringify refuses, and the passthroughs                            *)
(***************************************************************************)
\* none, empty, plain, cyclic, and one holding a BigInt
AnyContexts ==
  { Undefined,
    Obj(<<>>),
    Obj(<<Prop("userId", Str("123"))>>),
    Obj(<<Prop("userId", Str("123")), Prop("self", Cycle)>>),
    Obj(<<Prop("amount", BigInt(100))>>) }

ThrownErrors == {Obj(<<Prop("message", Str("Custom error"))>>)}

Users == {Obj(<<Prop("id", Str("123")), Prop("email", Str("user@example.com"))>>)}

ErrorAny ==
  MayCall /\ \E c \in AnyContexts, id \in nanoid : logger_error("Payment failed", c, id)
DebugAny ==
  MayCall /\ \E c \in AnyContexts, id \in nanoid : logger_debug("Payment failed", c, id)
LogAny ==
  MayCall /\ \E c \in AnyContexts, id \in nanoid : logger_log("Payment failed", c, id)
WarnAny ==
  MayCall /\ \E c \in AnyContexts, id \in nanoid : logger_warn("Payment failed", c, id)
VerboseAny ==
  MayCall /\ \E c \in AnyContexts, id \in nanoid : logger_verbose("Payment failed", c, id)

CaptureException ==
  \E error \in ThrownErrors, c \in {Undefined, Obj(<<Prop("userId", Str("123"))>>)},
     id \in nanoid :
    sentry_captureException(error, c, id)
SetContext == sentry_setContext("payment", Obj(<<Prop("amount", Num(100))>>))
SetUser == \E user \in Users : sentry_setUser(user)
SetTag == sentry_setTag("feature", "checkout")
CaptureMessage ==
  \E level \in {Undefined, Str("fatal")}, id \in nanoid :
    sentry_captureMessage("Custom event", level, Undefined, id)
AddBreadcrumb ==
  \E category \in {Undefined, Str("ui")} :
    sentry_addBreadcrumb("User action", category, Undefined, Undefined)

NextSentry ==
  \/ ErrorAny \/ DebugAny \/ LogAny \/ WarnAny \/ VerboseAny
  \/ CaptureException \/ SetContext \/ SetUser \/ SetTag \/ CaptureMessage \/ AddBreadcrumb

SpecSentry == Init /\ [][NextSentry]_vars

(***************************************************************************)
(* Response envelope builder                                               *)
(***************************************************************************)
\* the status keys the calls use, with their codes
HTTP ==
  [OK |-> 200, CREATED |-> 201, NO_CONTENT |-> 204,
   UNPROCESSABLE_ENTITY |-> 422, INTERNAL_SERVER_ERROR |-> 500]

HTTPStatusKey == DOMAIN HTTP

HTTP_STATUS_PHRASE(statusValue) ==
  CASE statusValue = 200 -> Str("OK")
    [] statusValue = 201 -> Str("Created")
    [] statusValue = 204 -> Str("No Content")
    [] statusValue = 400 -> Str("Bad Request")
    [] statusValue = 404 -> Str("Not Found")
    [] statusValue = 422 -> Str("Unprocessable Entity")
    [] statusValue = 500 -> Str("Internal Server Error")
    [] OTHER -> Undefined

\* options absent or {} : every property undefined
ErrorOptions(name, issues, timestamp, requestId) ==
  [name |-> name, issues |-> issues, timestamp |-> timestamp, requestId |-> requestId]

ResponseOptions(data, message, statusCode, timestamp, requestId) ==
  [data |-> data, message |-> message, statusCode |-> statusCode,
   timestamp |-> timestamp, requestId |-> requestId]

\* the two optional fields every envelope may get
WithOptionalFields(response, timestamp, requestId) ==
  LET stamped == IF Truthy(timestamp)
                 THEN SetProp(response, "timestamp", Str(toISOString))
                 ELSE response
  IN IF Truthy(requestId) THEN SetProp(stamped, "requestId", requestId) ELSE stamped

HONO_ERROR(statusCode, message, options) ==
  LET statusValue == HTTP[statusCode]
      defaultName == Or(HTTP_STATUS_PHRASE(statusValue), Str("Error"))
      name == Default(options.name, defaultName)
      issues == options.issues
      timestamp == Default(options.timestamp, Bool(TRUE))
      requestId == options.requestId
      errorIssues == Or(issues, Arr(<<Obj(<<Prop("message", message)>>)>>))
      response == Obj(<< Prop("success", Bool(FALSE)),
                         Prop("error", Obj(<<Prop("name", name),
                                             Prop("issues", errorIssues)>>)),
                         Prop("statusCode", Num(statusValue)) >>)
  IN WithOptionalFields(response, timestamp, requestId)

defaultMessages(statusCode) ==
  CASE statusCode = "OK" -> Str("Operation completed successfully")
    [] statusCode = "CREATED" -> Str("Resource created successfully")
    [] statusCode = "ACCEPTED" -> Str("Request accepted for processing")
    [] statusCode = "NO_CONTENT" -> Str("Operation completed successfully")
    [] OTHER -> Undefined

HONO_RESPONSE_mut_C7(options) ==
  LET data == options.data
      message == options.message
      statusCode == Default(options.statusCode, Str("OK")).s
      timestamp == Default(options.timestamp, Bool(TRUE))
      requestId == options.requestId
      statusValue == HTTP[statusCode]
      responseMessage == Or(message, Or(defaultMessages(statusCode),
                                        Str("Operation completed successfully")))
      response == Obj(<< Prop("success", Bool(TRUE)),
                         Prop("message", responseMessage),
                         Prop("statusCode", Num(statusValue)) >>)
      withData == IF data # Undefined
                  THEN SetProp(response, "data", data)
                  ELSE response
  IN WithOptionalFields(withData, timestamp, requestId)

HONO_RESPONSE(options) ==
  LET data == options.data
      message == options.message
      statusCode == Default(options.statusCode, Str("OK")).s
      timestamp == Default(options.timestamp, Bool(TRUE))
      requestId == options.requestId
      statusValue == HTTP[statusCode]
      responseMessage == Or(message, Or(defaultMessages(statusCode),
                                        Str("Operation completed successfully")))
      response == Obj(<< Prop("success", Bool(TRUE)),
                         Prop("message", responseMessage),
                         Prop("statusCode", Num(statusValue)) >>)
      withData == IF data # Undefined /\ statusCode # "NO_CONTENT"
                  THEN SetProp(response, "data", data)
                  ELSE response
  IN WithOptionalFields(withData, timestamp, requestId)

\* `Retrieved ${data.length} items`
RetrievedItems(data) == Str("Retrieved " \o ToString(Len(data.a)) \o " items")

\* the completed pagination: hasNext and hasPrev derived unless supplied
paginationData_mut_C11(pagination) ==
  LET page == GetProp(pagination, "page")
      totalPages == GetProp(pagination, "totalPages")
  IN SetProp(SetProp(Spread(Obj(<<>>), pagination),
                     "hasNext", Or(GetProp(pagination, "hasNext"),
                                   Bool(page.n < totalPages.n))),
             "hasPrev", Or(GetProp(pagination, "hasPrev"), Bool(page.n > 1)))

paginationData_mut_C12(pagination) == Spread(Obj(<<>>), pagination)

paginationData(pagination) ==
  LET page == GetProp(pagination, "page")
      totalPages == GetProp(pagination, "totalPages")
  IN SetProp(SetProp(Spread(Obj(<<>>), pagination),
                     "hasNext", Nullish(GetProp(pagination, "hasNext"),
                                        Bool(page.n < totalPages.n))),
             "hasPrev", Nullish(GetProp(pagination, "hasPrev"), Bool(page.n > 1)))

HONO_PAGINATED_RESPONSE(data, pagination, options) ==
  HONO_RESPONSE([options EXCEPT
       !.data = Obj(<<Prop("items", data), Prop("pagination", paginationData(pagination))>>),
       !.message = Or(options.message, RetrievedItems(data))])

isErrorResponse_mut_C10(response) ==
  And(response, StrictEq(GetProp(response, "success"), Bool(TRUE)))

isErrorResponse(response) ==
  And(response, StrictEq(GetProp(response, "success"), Bool(FALSE)))

isSuccessResponse(response) ==
  And(response, StrictEq(GetProp(response, "success"), Bool(TRUE)))

(***************************************************************************)
(* Inputs of the envelope builder                                          *)
(***************************************************************************)
Timestamps == {Undefined, Bool(TRUE), Bool(FALSE)}

RequestIds == {Undefined, Str(""), Str("req_123456")}

ErrorNames == {Undefined, Str("ValidationError")}

ErrorMessages == {"bad input", ""}

IssuePool ==
  { Obj(<<Prop("message", Str("Email is required")), Prop("path", Str("email")),
          Prop("code", Str("required"))>>),
    Obj(<<Prop("message", Str("Password too short"))>>) }

\* no issues option, or an array of 0..MaxIssues issues
IssuesOptions ==
  {Undefined} \cup {Arr(elems) : elems \in UNION {[1..n -> IssuePool] : n \in 0..MaxIssues}}

DataOptions ==
  { Undefined, Null, Num(0),
    Obj(<<Prop("x", Num(1))>>),
    Obj(<<Prop("id", Num(1)), Prop("name", Undefined)>>) }

SuccessMessages == {Undefined, Str(""), Str("User created successfully")}

StatusCodeOptions == {Undefined} \cup {Str(k) : k \in HTTPStatusKey}

ItemLists == {Arr(<<>>), Arr(<<Num(1), Num(2), Num(3)>>)}

Flags == {Undefined, Bool(TRUE), Bool(FALSE)}

Pagination(page, totalPages, hasNext, hasPrev) ==
  LET base == Obj(<< Prop("page", Num(page)), Prop("limit", Num(3)),
                     Prop("total", Num(10)), Prop("totalPages", Num(totalPages)) >>)
      next == IF hasNext = Undefined THEN base ELSE SetProp(base, "hasNext", hasNext)
  IN IF hasPrev = Undefined THEN next ELSE SetProp(next, "hasPrev", hasPrev)

\* values handed to the type guards besides envelopes
GuardInputs ==
  { Undefined, Null, Num(42), Num(0), Str(""), Str("error"), Bool(TRUE), Bool(FALSE),
    Arr(<<>>), Obj(<<>>), Obj(<<Prop("message", Str("x"))>>),
    Obj(<<Prop("success", Bool(FALSE))>>), Obj(<<Prop("success", Bool(TRUE))>>),
    Obj(<<Prop("success", Str("false"))>>),
    HONO_ERROR("UNPROCESSABLE_ENTITY", Str("bad input"),
               ErrorOptions(Undefined, Undefined, Undefined, Undefined)),
    HONO_RESPONSE(ResponseOptions(Undefined, Undefined, Undefined, Undefined, Undefined)) }

(***************************************************************************)
(* Specification of the envelope builder: one call per behaviour (the      *)
(* functions keep no state between calls); a built envelope is serialised  *)
(* by the response layer and parsed by the client                          *)
(***************************************************************************)
Call_HONO_ERROR ==
  \E statusCode \in HTTPStatusKey, message \in ErrorMessages, name \in ErrorNames,
     issues \in IssuesOptions, timestamp \in Timestamps, requestId \in RequestIds :
    LET options == ErrorOptions(name, issues, timestamp, requestId) IN
    /\ req = NoCall
    /\ req' = [op |-> "HONO_ERROR", statusCode |-> statusCode,
               message |-> Str(message), options |-> options]
    /\ ret' = HONO_ERROR(statusCode, Str(message), options)
    /\ wire' = <<>>
    /\ parsed' = Undefined
    /\ UNCHANGED <<processEnv, env, console, sentry, effects>>

Call_HONO_RESPONSE ==
  \E data \in DataOptions, message \in SuccessMessages, statusCode \in StatusCodeOptions,
     timestamp \in Timestamps, requestId \in RequestIds :
    LET options == ResponseOptions(data, message, statusCode, timestamp, requestId) IN
    /\ req = NoCall
    /\ req' = [op |-> "HONO_RESPONSE", options |-> options]
    /\ ret' = HONO_RESPONSE(options)
    /\ wire' = <<>>
    /\ parsed' = Undefined
    /\ UNCHANGED <<processEnv, env, console, sentry, effects>>

Call_HONO_PAGINATED_RESPONSE ==
  \E data \in ItemLists, page \in 1..2, totalPages \in 1..2,
     hasNext \in Flags, hasPrev \in Flags,
     message \in SuccessMessages, statusCode \in StatusCodeOptions :
    LET options == ResponseOptions(Undefined, message, statusCode, Undefined, Undefined)
        pagination == Pagination(page, totalPages, hasNext, hasPrev) IN
    /\ req = NoCall
    /\ req' = [op |-> "HONO_PAGINATED_RESPONSE", data |-> data,
               pagination |-> pagination, options |-> options]
    /\ ret' = HONO_PAGINATED_RESPONSE(data, pagination, options)
    /\ wire' = <<>>
    /\ parsed' = Undefined
    /\ UNCHANGED <<processEnv, env, console, sentry, effects>>

Call_isErrorResponse ==
  \E response \in GuardInputs :
    /\ req = NoCall
    /\ req' = [op |-> "isErrorResponse", response |-> response]
    /\ ret' = isErrorResponse(response)
    /\ wire' = <<>>
    /\ parsed' = Undefined
    /\ UNCHANGED <<processEnv, env, console, sentry, effects>>

Call_isSuccessResponse ==
  \E response \in GuardInputs :
    /\ req = NoCall
    /\ req' = [op |-> "isSuccessResponse", response |-> response]
    /\ ret' = isSuccessResponse(response)
    /\ wire' = <<>>
    /\ parsed' = Undefined
    /\ UNCHANGED <<processEnv, env, console, sentry, effects>>

Builders == {"HONO_ERROR", "HONO_RESPONSE", "HONO_PAGINATED_RESPONSE"}

\* c.json(envelope, status): the body is the JSON text of the envelope
c_json ==
  /\ req.op \in Builders
  /\ wire = <<>>
  /\ wire' = stringify(ret)
  /\ UNCHANGED <<processEnv, env, console, sentry, effects, req, ret, parsed>>

\* the client reads the body back
JSON_parse ==
  /\ wire # <<>>
  /\ parsed = Undefined
  /\ parsed' = parse(wire)
  /\ UNCHANGED <<processEnv, env, console, sentry, effects, req, ret, wire>>

\* the builder reads no configuration: the schema's defaults stand for any
InitEnvelope ==
  /\ Init
  /\ env = [SENTRY_ENABLED |-> FALSE, SENTRY_ENABLE_LOGS |-> TRUE, NODE_ENV |-> "development"]

NextEnvelope ==
  \/ Call_HONO_ERROR
  \/ Call_HONO_RESPONSE
  \/ Call_HONO_PAGINATED_RESPONSE
  \/ Call_isErrorResponse
  \/ Call_isSuccessResponse
  \/ c_json
  \/ JSON_parse

SpecEnvelope == InitEnvelope /\ [][NextEnvelope]_vars

(***************************************************************************)
(* HTTP layer: validation hook, global error handler, route handlers       *)
(***************************************************************************)
OK == HTTP.OK
UNPROCESSABLE_ENTITY == HTTP.UNPROCESSABLE_ENTITY
INTERNAL_SERVER_ERROR == HTTP.INTERNAL_SERVER_ERROR

\* what c.json(body, status) returns
Response(body, status) == [t |-> "response", body |-> body, status |-> status]

\* String(element) for the strings and numbers of a Zod path
ToStr(v) == IF v.t = "number" THEN ToString(v.n) ELSE v.s

RECURSIVE join(_, _, _)
\* elems.join(sep), from element i on
join(elems, sep, i) ==
  IF i > Len(elems) THEN ""
  ELSE IF i = Len(elems) THEN ToStr(elems[i])
  ELSE ToStr(elems[i]) \o sep \o join(elems, sep, i + 1)

mapIssue_mut_C13(issue) ==
  Obj(<< Prop("message", GetProp(issue, "message")),
         Prop("path", Str(join(GetProp(issue, "path").a, ".", 1))),
         Prop("code", Or(GetProp(issue, "code"), Undefined)) >>)

\* the callback of result.error.issues.map
mapIssue(issue) ==
  Obj(<< Prop("message", GetProp(issue, "message")),
         Prop("path", Or(Str(join(GetProp(issue, "path").a, ".", 1)), Undefined)),
         Prop("code", Or(GetProp(issue, "code"), Undefined)) >>)

\* result.error?.issues
ZodIssuesOf(result) ==
  IF GetProp(result, "error").t \in {"undefined", "null"} THEN Undefined
  ELSE GetProp(GetProp(result, "error"), "issues")

\* the envelope the default hook builds for a failed validation
hookErrorResponse(includeErrorDetails, result, requestId) ==
  LET structured == includeErrorDetails /\ HasProp(result, "error")
                    /\ Truthy(ZodIssuesOf(result))
      issues == IF structured
                THEN Arr([i \in 1..Len(ZodIssuesOf(result).a) |->
                            mapIssue(ZodIssuesOf(result).a[i])])
                ELSE Arr(<<Obj(<<Prop("message", Str("Validation failed"))>>)>>)
  IN HONO_ERROR("UNPROCESSABLE_ENTITY", Str("Validation failed"),
                ErrorOptions(Str("Validation Error"), issues, Bool(TRUE), requestId))

\* createDefaultHook(includeErrorDetails)(result, c)
createDefaultHook(includeErrorDetails, result, requestId) ==
  /\ req = NoCall
  /\ req' = [op |-> "defaultHook", includeErrorDetails |-> includeErrorDetails,
             result |-> result, requestId |-> requestId]
  /\ IF ~Truthy(GetProp(result, "success"))
     THEN LET errorResponse == hookErrorResponse(includeErrorDetails, result, requestId) IN
          /\ ret' = Response(errorResponse, UNPROCESSABLE_ENTITY)
          /\ wire' = stringify(errorResponse)
     ELSE /\ ret' = Undefined
          /\ wire' = <<>>
  /\ parsed' = Undefined
  /\ UNCHANGED <<processEnv, env, console, sentry, effects>>

curr_env_mut_C18(c_env) == Str(env.NODE_ENV)

\* c.env?.NODE_ENV || env.NODE_ENV
curr_env(c_env) ==
  Or(IF c_env.t \in {"undefined", "null"} THEN Undefined ELSE GetProp(c_env, "NODE_ENV"),
     Str(env.NODE_ENV))

onError(err, c_env) ==
  LET currentStatus == IF HasProp(err, "status") THEN GetProp(err, "status") ELSE Num(OK)
      statusCode == IF currentStatus # Num(OK) THEN currentStatus
                    ELSE Num(INTERNAL_SERVER_ERROR)
      body == Obj(<< Prop("message", GetProp(err, "message")),
                     Prop("statusCode", statusCode),
                     Prop("error", Nullish(HTTP_STATUS_PHRASE(statusCode.n),
                                           Str("Unknown Error"))),
                     Prop("stack", IF curr_env(c_env) = Str("production")
                                   THEN Undefined ELSE GetProp(err, "stack")) >>)
  IN /\ req = NoCall
     /\ req' = [op |-> "onError", err |-> err, c_env |-> c_env]
     /\ ret' = Response(body, statusCode.n)
     /\ wire' = stringify(body)
     /\ parsed' = Undefined
     /\ UNCHANGED <<processEnv, env, console, sentry, effects>>

\* GET /mailer
GET_Handler ==
  LET body == HONO_RESPONSE(ResponseOptions(Undefined, Undefined, Undefined,
                                            Undefined, Undefined)) IN
  /\ req = NoCall
  /\ req' = [op |-> "GET_Handler"]
  /\ ret' = Response(body, OK)
  /\ wire' = stringify(body)
  /\ parsed' = Undefined
  /\ UNCHANGED <<processEnv, env, console, sentry, effects>>

\* GET /api/
BaseHandler ==
  LET body == HONO_RESPONSE(ResponseOptions(Undefined, Str("Yollo Bozo"), Undefined,
                                            Undefined, Undefined)) IN
  /\ req = NoCall
  /\ req' = [op |-> "BaseHandler"]
  /\ ret' = Response(body, OK)
  /\ wire' = stringify(body)
  /\ parsed' = Undefined
  /\ UNCHANGED <<processEnv, env, console, sentry, effects>>

(***************************************************************************)
(* Inputs of the HTTP layer                                                *)
(***************************************************************************)
ZodIssue(message, path, code) ==
  Obj(<<Prop("message", Str(message)), Prop("path", Arr(path)), Prop("code", Str(code))>>)

\* a nested field, a root-level failure, a top-level field
ZodIssuePool ==
  { ZodIssue("Required", <<Str("items"), Num(0), Str("name")>>, "invalid_type"),
    ZodIssue("Unrecognized key", <<>>, "unrecognized_keys"),
    ZodIssue("Invalid email", <<Str("email")>>, "invalid_format") }

\* a Zod failure carries at least one issue
ZodFailures ==
  { Obj(<<Prop("success", Bool(FALSE)), Prop("error", Obj(<<Prop("issues", Arr(elems))>>))>>) :
      elems \in UNION {[1..n -> ZodIssuePool] : n \in 1..MaxIssues} }

\* failures of other validators: no error property, or none set
BareFailures ==
  { Obj(<<Prop("success", Bool(FALSE))>>),
    Obj(<<Prop("success", Bool(FALSE)), Prop("error", Undefined)>>) }

ValidationResults ==
  ZodFailures \cup BareFailures
    \cup {Obj(<<Prop("success", Bool(TRUE)), Prop("data", Obj(<<>>))>>)}

\* c.get("requestId")
ContextRequestIds == {Undefined, Str("req_123456")}

\* thrown errors: plain, HTTPException-like, one with an unlisted status
Errors ==
  { Obj(<<Prop("message", Str("boom")), Prop("stack", Str("Error: boom at handler"))>>) }
  \cup { Obj(<<Prop("message", Str("denied")), Prop("stack", Str("Error: denied at auth")),
               Prop("status", Num(s))>>) : s \in {200, 404, 422, 599} }

\* c.env: not bound, bound without NODE_ENV, bound with it
RequestEnvs ==
  { Undefined, Obj(<<>>),
    Obj(<<Prop("NODE_ENV", Str("production"))>>),
    Obj(<<Prop("NODE_ENV", Str("development"))>>) }

Hook ==
  \E includeErrorDetails \in BOOLEAN, result \in ValidationResults,
     requestId \in ContextRequestIds :
    createDefaultHook(includeErrorDetails, result, requestId)

OnError == \E err \in Errors, c_env \in RequestEnvs : onError(err, c_env)

\* one request per behaviour; the client parses the body it receives
NextHttp == Hook \/ OnError \/ GET_Handler \/ BaseHandler \/ JSON_parse

SpecHttp == Init /\ [][NextHttp]_vars

(***************************************************************************)
(* The mailer service                                                      *)
(***************************************************************************)
\* new Error(message)
newError(message) == [t |-> "error", message |-> message]

\* value instanceof Error
instanceofError(value) == value.t = "error"

\* what resend.emails.send(emailData) does: it resolves to {data, error} or
\* it rejects with a thrown value
Resolved(data, error) == [kind |-> "resolved", data |-> data, error |-> error]
Rejected(value) == [kind |-> "rejected", value |-> value]
NotCalled == [kind |-> "none"]

\* console.error(...args) / console.log(...args) of the mailer
MailerLine(method, args) == [method |-> method, args |-> args]

EmailResponse(success, entries) == Obj(<<Prop("success", Bool(success))>> \o entries)

noContent(options) ==
  ~Truthy(GetProp(options, "html")) /\ ~Truthy(GetProp(options, "text"))

emailData(options) ==
  LET base == Obj(<<Prop("from", Or(GetProp(options, "from"), Str("onboarding@resend.dev"))),
                    Prop("to", GetProp(options, "to")),
                    Prop("subject", GetProp(options, "subject")),
                    Prop("replyTo", GetProp(options, "replyTo")),
                    Prop("cc", GetProp(options, "cc")),
                    Prop("bcc", GetProp(options, "bcc"))>>)
      withHtml == IF Truthy(GetProp(options, "html"))
                  THEN SetProp(base, "html", GetProp(options, "html"))
                  ELSE base
  IN IF Truthy(GetProp(options, "text"))
     THEN SetProp(withHtml, "text", GetProp(options, "text"))
     ELSE withHtml

\* data?.id
dataId(data) == IF data.t \in {"undefined", "null"} THEN Undefined ELSE GetProp(data, "id")

\* sendEmail(options), the provider behaving as outcome when it is called
sendEmail(options, outcome) ==
  /\ req = NoCall
  /\ IF noContent(options)
     THEN /\ ret' = EmailResponse(FALSE,
                      <<Prop("error", Str("Either html or text content must be provided"))>>)
          /\ console' = console
          /\ req' = [op |-> "sendEmail", options |-> options, called |-> FALSE,
                     emailData |-> Undefined, outcome |-> NotCalled]
     ELSE /\ req' = [op |-> "sendEmail", options |-> options, called |-> TRUE,
                     emailData |-> emailData(options), outcome |-> outcome]
          /\ IF outcome.kind = "rejected"
             THEN /\ console' = Append(console,
                        MailerLine("error", <<Str("Email sending error:"), outcome.value>>))
                  /\ ret' = EmailResponse(FALSE,
                        <<Prop("error", IF instanceofError(outcome.value)
                                        THEN Str(outcome.value.message)
                                        ELSE Str("Unknown error occurred"))>>)
             ELSE IF Truthy(outcome.error)
             THEN /\ console' = Append(console,
                        MailerLine("error", <<Str("Email sending failed:"), outcome.error>>))
                  /\ ret' = EmailResponse(FALSE,
                        <<Prop("error", Or(GetProp(outcome.error, "message"),
                                           Str("Failed to send email")))>>)
             ELSE /\ console' = Append(console,
                        MailerLine("log", <<Str("Email sent successfully:"),
                                            dataId(outcome.data)>>))
                  /\ ret' = EmailResponse(TRUE, <<Prop("data", outcome.data)>>)
  /\ effects' = SubSeq(console', Len(console) + 1, Len(console'))
  /\ UNCHANGED <<processEnv, env, sentry, wire, parsed>>

\* the options a caller passes: content present, empty or missing
EmailOptions ==
  { Obj(<<Prop("to", Str("user@example.com")), Prop("subject", Str("Welcome"))>>
        \o html \o text \o from) :
      html \in {<<>>, <<Prop("html", Str(""))>>, <<Prop("html", Str("<p>Hi</p>"))>>},
      text \in {<<>>, <<Prop("text", Str(""))>>, <<Prop("text", Str("Hi"))>>},
      from \in {<<>>, <<Prop("from", Str("team@example.com"))>>} }

ProviderOutcomes ==
  { Resolved(Obj(<<Prop("id", Str("49a3999c"))>>), Null),
    Resolved(Null, Obj(<<Prop("message", Str("Invalid to field")),
                         Prop("name", Str("validation_error"))>>)),
    Resolved(Null, Obj(<<Prop("message", Str("")),
                         Prop("name", Str("application_error"))>>)),
    Rejected(newError("fetch failed")),
    Rejected(newError("")),
    Rejected(Str("socket closed")) }

SendEmail == \E options \in EmailOptions, outcome \in ProviderOutcomes : sendEmail(options, outcome)

NextMailer == SendEmail

SpecMailer == Init /\ [][NextMailer]_vars

(***************************************************************************)
(* Properties of the logger                                                *)
(***************************************************************************)
BothFlags == env.SENTRY_ENABLED /\ env.SENTRY_ENABLE_LOGS

\* the collector calls made by the step
NewCalls == SubSeq(sentry', Len(sentry) + 1, Len(sentry'))

\* the step is a level call of one of the given levels
Called(levels) == Len(console') = Len(console) + 1 /\ req'.op \in levels

CountOp(calls, op) == Cardinality({i \in 1..Len(calls) : calls[i].op = op})

\* C1: a debug or verbose call reaches the collector only when both flags
\* are set and NODE_ENV is "development"; in every other combination the
\* call adds nothing to the collector.
C1_DebugVerboseOnlyInDevelopment ==
  [][ Called({"debug", "verbose"}) =>
        /\ (Len(NewCalls) > 0 => BothFlags /\ env.NODE_ENV = "development")
        /\ (~(BothFlags /\ env.NODE_ENV = "development") => sentry' = sentry) ]_vars

C1_Witness ==
  /\ req.op \in {"debug", "verbose"}
  /\ BothFlags /\ env.NODE_ENV = "production"
  /\ Len(console) = MaxCalls
  /\ \A i \in 1..Len(console) : console[i].tag \in {"DEBUG", "VERBOSE"}
  /\ sentry = <<>>

\* C2: logger.error with both flags set adds exactly one breadcrumb of
\* severity "error" and captures exactly one exception carrying the message
\* and tagged with the entry's identifier; with a flag unset it makes no
\* collector call.
C2_ErrorBreadcrumbAndException ==
  [][ Called({"error"}) =>
        IF BothFlags
        THEN /\ Len(NewCalls) = 2
             /\ CountOp(NewCalls, "addBreadcrumb") = 1
             /\ CountOp(NewCalls, "captureException") = 1
             /\ \A i \in 1..2 :
                  /\ NewCalls[i].op = "addBreadcrumb" => NewCalls[i].level = "error"
                  /\ NewCalls[i].op = "captureException" =>
                       /\ NewCalls[i].message = req'.message
                       /\ GetProp(NewCalls[i].tags, "logId") = req'.logEntry.logId
                       /\ req'.logEntry.logId.t = "string"
        ELSE sentry' = sentry ]_vars

C2_Witness ==
  /\ req.op = "error" /\ BothFlags
  /\ Len(sentry) = 2
  /\ sentry[2].op = "captureException"
  /\ sentry[2].message = "Payment failed"

\* C3: logger.warn with both flags set adds exactly one breadcrumb and
\* captures exactly one message of severity "warning" tagged with the entry's
\* identifier; with a flag unset it makes no collector call; it never
\* captures an exception.
C3_WarnBreadcrumbAndMessage ==
  [][ Called({"warn"}) =>
        /\ CountOp(NewCalls, "captureException") = 0
        /\ IF BothFlags
           THEN /\ Len(NewCalls) = 2
                /\ CountOp(NewCalls, "addBreadcrumb") = 1
                /\ CountOp(NewCalls, "captureMessage") = 1
                /\ \A i \in 1..2 :
                     NewCalls[i].op = "captureMessage" =>
                       /\ NewCalls[i].level = "warning"
                       /\ NewCalls[i].message = req'.message
                       /\ GetProp(NewCalls[i].tags, "logId") = req'.logEntry.logId
                       /\ req'.logEntry.logId.t = "string"
           ELSE sentry' = sentry ]_vars

C3_Witness ==
  /\ req.op = "warn" /\ BothFlags
  /\ Len(sentry) = 2
  /\ sentry[2].op = "captureMessage"
  /\ sentry[2].level = "warning"

C3_WitnessFlagUnset ==
  /\ req.op = "warn" /\ env.SENTRY_ENABLED /\ ~env.SENTRY_ENABLE_LOGS
  /\ sentry = <<>>

\* C4: while only log, debug and verbose have been called, the collector has
\* received nothing but breadcrumbs (no captureException, no captureMessage),
\* of severity "info" or "debug", and none at all unless both flags are set.
C4_ContextLevelsOnlyBreadcrumbs ==
  (\A i \in 1..Len(console) : console[i].tag \in {"LOG", "DEBUG", "VERBOSE"}) =>
    /\ \A j \in 1..Len(sentry) :
         /\ sentry[j].op = "addBreadcrumb"
         /\ sentry[j].level \in {"info", "debug"}
    /\ (sentry # <<>> => BothFlags)
    /\ (Len(console) > 0 /\ req.op = "log" /\ BothFlags =>
          sentry # <<>> /\ sentry[Len(sentry)].level = "info")

C4_Witness ==
  /\ Len(console) = MaxCalls
  /\ \A i \in 1..Len(console) : console[i].tag \in {"LOG", "DEBUG", "VERBOSE"}
  /\ \E i \in 1..Len(console) : console[i].tag = "LOG"
  /\ Len(sentry) = MaxCalls
  /\ sentry[Len(sentry)].level = "info"

\* C5: the entry built by a level call carries an identifier exactly when
\* the level is error, warn or verbose.
C5_IdentifierIffLevel ==
  req.op \in {"error", "warn", "log", "debug", "verbose"} =>
    /\ req.logEntry.level = req.op
    /\ (req.logEntry.logId # Undefined <=> req.op \in {"error", "warn", "verbose"})
    /\ (req.logEntry.logId # Undefined => req.logEntry.logId.t = "string")

C5_Witness ==
  /\ req.op = "verbose"
  /\ req.logEntry.logId = Str("Uakgb_J5")
  /\ req.context # Undefined /\ HasProp(req.context, "logId")

\* C6: for a forwarded error, warn or verbose call, the breadcrumb's
\* data.logId and (error, warn) the capture's logId tag equal the identifier
\* printed on the call's console line, whatever context the caller passed.
C6_CollectorIdentifierIsConsoleIdentifier ==
  /\ (req.op \in {"error", "warn"} /\ BothFlags =>
        /\ GetProp(sentry[Len(sentry) - 1].data, "logId") = console[Len(console)].logId
        /\ GetProp(sentry[Len(sentry)].tags, "logId") = console[Len(console)].logId)
  /\ (req.op = "verbose" /\ BothFlags /\ env.NODE_ENV = "development" =>
        GetProp(sentry[Len(sentry)].data, "logId") = console[Len(console)].logId)

(***************************************************************************)
(* Properties of the envelope builder                                      *)
(***************************************************************************)
\* the status key a success call runs with
StatusKeyOf(options) == Default(options.statusCode, Str("OK")).s

\* C7: an envelope built by HONO_RESPONSE for NO_CONTENT has no data field,
\* whatever data was supplied; for every other status key the data field is
\* present exactly when the supplied data is not undefined (and is that data).
C7_NoDataOnNoContent ==
  req.op = "HONO_RESPONSE" =>
    IF StatusKeyOf(req.options) = "NO_CONTENT"
    THEN ~HasProp(ret, "data")
    ELSE /\ HasProp(ret, "data") <=> req.options.data # Undefined
         /\ GetProp(ret, "data") = req.options.data

C7_Witness ==
  /\ req.op = "HONO_RESPONSE"
  /\ req.options.statusCode = Str("NO_CONTENT")
  /\ req.options.data = Obj(<<Prop("x", Num(1))>>)
  /\ ~HasProp(ret, "data")

C7_WitnessNull ==
  /\ req.op = "HONO_RESPONSE"
  /\ req.options.statusCode = Str("CREATED")
  /\ req.options.data = Null
  /\ HasProp(ret, "data")

\* C8: error.issues of an envelope built by HONO_ERROR is a non-empty
\* sequence for any options, a supplied issues sequence of any length
\* included; with no issues supplied it is the single issue {message}.
C8_IssuesNeverEmpty ==
  req.op = "HONO_ERROR" =>
    LET issues == GetProp(GetProp(ret, "error"), "issues") IN
    /\ issues.t = "array"
    /\ Len(issues.a) > 0
    /\ (req.options.issues = Undefined =>
          issues = Arr(<<Obj(<<Prop("message", req.message)>>)>>))

\* C9: the type guards never raise, and return the boolean false for null,
\* undefined, a non-object and an object without a success field.
C9_GuardsReturnFalseOnMalformed ==
  req.op \in {"isErrorResponse", "isSuccessResponse"} =>
    /\ ret # Throw
    /\ (req.response.t # "object" \/ ~HasProp(req.response, "success") =>
          ret = Bool(FALSE))

\* C10: an envelope built by HONO_RESPONSE, HONO_ERROR or
\* HONO_PAGINATED_RESPONSE, serialised to JSON and parsed back, satisfies
\* the matching type guard (true) and not the other one (false).
C10_RoundTripKeepsDiscriminant ==
  req.op \in Builders /\ parsed # Undefined =>
    IF req.op = "HONO_ERROR"
    THEN isErrorResponse(parsed) = Bool(TRUE) /\ isSuccessResponse(parsed) = Bool(FALSE)
    ELSE isSuccessResponse(parsed) = Bool(TRUE) /\ isErrorResponse(parsed) = Bool(FALSE)

\* a parsed error envelope
C10_Witness ==
  /\ req.op = "HONO_ERROR"
  /\ parsed # Undefined
  /\ GetProp(parsed, "statusCode") = Num(422)
  /\ Len(GetProp(GetProp(parsed, "error"), "issues").a) = MaxIssues

\* a parsed success envelope that differs from the one built: the text has
\* no place for a property whose value is undefined
C10_WitnessLossy ==
  /\ req.op = "HONO_RESPONSE"
  /\ parsed # Undefined
  /\ parsed # ret
  /\ HasProp(parsed, "data")

\* the pagination carried by a paginated envelope
PaginationOf(envelope) == GetProp(GetProp(envelope, "data"), "pagination")

C12_PaginatedAlwaysCarriesData ==
  req.op = "HONO_PAGINATED_RESPONSE" =>
    /\ HasProp(ret, "data")
    /\ GetProp(GetProp(ret, "data"), "items") = req.data
    /\ PaginationOf(ret) = paginationData(req.pagination)

\* C12 amended: the envelope carries data = {items, pagination} for every
\* status key other than NO_CONTENT; for NO_CONTENT it has no data field.
C12_PaginatedCarriesDataUnlessNoContent ==
  req.op = "HONO_PAGINATED_RESPONSE" =>
    IF StatusKeyOf(req.options) = "NO_CONTENT"
    THEN ~HasProp(ret, "data")
    ELSE /\ GetProp(ret, "success") = Bool(TRUE)
         /\ Keys(GetProp(ret, "data")) = <<"items", "pagination">>
         /\ GetProp(GetProp(ret, "data"), "items") = req.data
         /\ LET completed == PaginationOf(ret) IN
            /\ \A k \in {"page", "limit", "total", "totalPages"} :
                 GetProp(completed, k) = GetProp(req.pagination, k)
            /\ GetProp(completed, "hasNext").t = "boolean"
            /\ GetProp(completed, "hasPrev").t = "boolean"

C12_Witness ==
  /\ req.op = "HONO_PAGINATED_RESPONSE"
  /\ req.options.statusCode = Str("CREATED")
  /\ Len(req.data.a) = 3
  /\ ~HasProp(req.pagination, "hasNext")
  /\ GetProp(PaginationOf(ret), "hasNext") = Bool(TRUE)

C12_WitnessNoContent ==
  /\ req.op = "HONO_PAGINATED_RESPONSE"
  /\ req.options.statusCode = Str("NO_CONTENT")
  /\ ~HasProp(ret, "data")

(***************************************************************************)
(* Properties of the HTTP layer                                            *)
(***************************************************************************)
\* the issues of the body the client parsed
ParsedIssues == GetProp(GetProp(parsed, "error"), "issues").a

\* the Zod issues of the validation result handed to the hook, if any
GivenIssues ==
  IF HasProp(req.result, "error") /\ GetProp(req.result, "error").t = "object"
  THEN GetProp(GetProp(req.result, "error"), "issues").a
  ELSE <<>>

\* the dot-joined paths of the issues of the pool
ExpectedPath(issue) ==
  CASE GetProp(issue, "message") = Str("Required") -> Str("items.0.name")
    [] GetProp(issue, "message") = Str("Invalid email") -> Str("email")
    [] OTHER -> Undefined

\* C13: for a failed validation the default hook answers with status 422
\* and an error envelope: success false, statusCode 422, name "Validation
\* Error", and one issue per validation failure, in order, each with the
\* failure's message and code and its dot-joined path (no path for a
\* root-level failure); without structured errors, or with error details
\* disabled, the only issue is {message: "Validation failed"}.
C13_HookAnswers422WithIssues ==
  req.op = "defaultHook" /\ GetProp(req.result, "success") = Bool(FALSE) =>
    /\ ret.status = 422
    /\ wire # <<>>
    /\ parsed # Undefined =>
         /\ GetProp(parsed, "success") = Bool(FALSE)
         /\ GetProp(parsed, "statusCode") = Num(422)
         /\ GetProp(GetProp(parsed, "error"), "name") = Str("Validation Error")
         /\ IF req.includeErrorDetails /\ GivenIssues # <<>>
            THEN /\ Len(ParsedIssues) = Len(GivenIssues)
                 /\ \A i \in 1..Len(GivenIssues) :
                      /\ GetProp(ParsedIssues[i], "message") = GetProp(GivenIssues[i], "message")
                      /\ GetProp(ParsedIssues[i], "code") = GetProp(GivenIssues[i], "code")
                      /\ GetProp(ParsedIssues[i], "path") = ExpectedPath(GivenIssues[i])
                      /\ HasProp(ParsedIssues[i], "path") <=>
                           GetProp(GivenIssues[i], "path") # Arr(<<>>)
            ELSE ParsedIssues = <<Obj(<<Prop("message", Str("Validation failed"))>>)>>

\* two failures, a nested field then a root-level one
C13_Witness ==
  /\ req.op = "defaultHook" /\ req.includeErrorDetails
  /\ parsed # Undefined
  /\ Len(ParsedIssues) = 2
  /\ GetProp(ParsedIssues[1], "path") = Str("items.0.name")
  /\ ~HasProp(ParsedIssues[2], "path")
  /\ GetProp(ParsedIssues[2], "code") = Str("unrecognized_keys")

C13_WitnessGeneric ==
  /\ req.op = "defaultHook" /\ ~HasProp(req.result, "error")
  /\ parsed # Undefined
  /\ Len(ParsedIssues) = 1

\* one of the two envelope shapes
IsEnvelope(body) ==
  /\ body.t = "object"
  /\ GetProp(body, "success").t = "boolean"
  /\ GetProp(body, "statusCode").t = "number"
  /\ IF GetProp(body, "success").b
     THEN GetProp(body, "message").t = "string"
     ELSE /\ GetProp(body, "error").t = "object"
          /\ GetProp(GetProp(body, "error"), "name").t = "string"
          /\ GetProp(GetProp(body, "error"), "issues").t = "array"

\* C14: every response body the application produces (route handlers, the
\* validation hook, the global onError handler) is one of the two envelope
\* shapes: a boolean success with message and statusCode, or with
\* error.name, error.issues and statusCode.
C14_EveryBodyIsEnvelope ==
  req.op \in {"defaultHook", "onError", "GET_Handler", "BaseHandler"} /\ parsed # Undefined =>
    IsEnvelope(parsed)

\* the environment onError decides by
EffectiveEnv ==
  IF req.c_env.t = "object" /\ HasProp(req.c_env, "NODE_ENV")
  THEN GetProp(req.c_env, "NODE_ENV").s
  ELSE env.NODE_ENV

C18_WitnessStack ==
  /\ req.op = "onError"
  /\ env.NODE_ENV = "test" /\ req.c_env = Undefined
  /\ ret.status = 404
  /\ parsed # Undefined /\ HasProp(parsed, "stack")

(***************************************************************************)
(* The logger under the documented environments                            *)
(***************************************************************************)
InitConfig ==
  /\ processEnv \in DocumentedEnvs
  /\ env = EnvSchema(processEnv)
  /\ console = <<>>
  /\ sentry = <<>>
  /\ effects = <<>>
  /\ req = NoCall
  /\ ret = Undefined
  /\ wire = <<>>
  /\ parsed = Undefined

SpecConfig == InitConfig /\ [][NextSentry]_vars

(***************************************************************************)
(* Properties of the whole logger                                          *)
(***************************************************************************)
LevelOps == {"error", "warn", "log", "debug", "verbose"}

PassthroughOps ==
  {"sentry.captureException", "sentry.captureMessage", "sentry.setContext",
   "sentry.setUser", "sentry.setTag", "sentry.addBreadcrumb"}

LastBlock == console[Len(console)].text[2]

\* C16: the console line of a level call has no trailing context block when
\* the call has no context or an empty one; with a non-empty context it has
\* exactly one block, after the message: the JSON text of the context or,
\* when JSON rendering fails, a placeholder naming the failure reason.
C16_ContextBlock ==
  req.op \in LevelOps =>
    /\ Len(console[Len(console)].text) = 2
    /\ console[Len(console)].text[1] = req.message
    /\ IF req.context = Undefined \/ req.context = Obj(<<>>)
       THEN LastBlock = ContextStr(FALSE, FALSE, <<>>, "")
       ELSE /\ LastBlock.newline
            /\ IF stringifyError(req.context) = ""
               THEN /\ LastBlock.placeholder = ""
                    /\ LastBlock.json # <<>>
                    /\ parse(LastBlock.json) = req.context
               ELSE /\ LastBlock.json = <<>>
                    /\ LastBlock.placeholder \in
                         { "[Context serialization failed: Converting circular structure to JSON]",
                           "[Context serialization failed: Do not know how to serialize a BigInt]" }

C16_Witness ==
  /\ req.op = "debug"
  /\ req.context = Obj(<<Prop("userId", Str("123"))>>)
  /\ LastBlock.json # <<>>

C16_WitnessPlaceholder ==
  /\ req.op = "log"
  /\ req.context = Obj(<<Prop("amount", BigInt(100))>>)
  /\ LastBlock.placeholder # ""

C16_WitnessEmpty ==
  /\ req.op = "verbose"
  /\ req.context = Obj(<<>>)
  /\ ~LastBlock.newline

\* C17: with SENTRY_ENABLED false a call of any logger.sentry method makes
\* no collector call and has no other observable effect.
C17_PassthroughsNoOpWhenDisabled ==
  [][ req'.op \in PassthroughOps /\ ~env.SENTRY_ENABLED =>
        sentry' = sentry /\ console' = console ]_vars

\* C19: Sentry is enabled only by SENTRY_ENABLED=true: with the variable
\* unset or set to false the parsed flag is false and no logger call
\* forwards anything to the collector.
C19_EnabledOnlyByTrue ==
  processEnv.SENTRY_ENABLED \in {Undefined, Str("false")} =>
    /\ env.SENTRY_ENABLED = FALSE
    /\ sentry = <<>>

(***************************************************************************)
(* Properties of the mailer service                                        *)
(***************************************************************************)
\* C20: sendEmail never raises and always resolves to an EmailResponse;
\* without html and text it resolves to {success: false, error} and the
\* provider is not called; when the provider returns an error or throws it
\* resolves to success false with a non-empty error string; it resolves to
\* success true only when the provider was called and returned no error.
C20_SendEmailAlwaysResolves ==
  req.op = "sendEmail" =>
    /\ ret.t = "object"
    /\ GetProp(ret, "success").t = "boolean"
    /\ (noContent(req.options) =>
          /\ ret = EmailResponse(FALSE,
                     <<Prop("error", Str("Either html or text content must be provided"))>>)
          /\ ~req.called)
    /\ (req.called /\ (req.outcome.kind = "rejected" \/ Truthy(req.outcome.error)) =>
          /\ GetProp(ret, "success") = Bool(FALSE)
          /\ GetProp(ret, "error").t = "string"
          /\ GetProp(ret, "error").s # "")
    /\ (GetProp(ret, "success") = Bool(TRUE) =>
          /\ req.called
          /\ req.outcome.kind = "resolved"
          /\ ~Truthy(req.outcome.error))

(***************************************************************************)
(* Properties of the order of effects                                      *)
(***************************************************************************)
\* an effect that is a call of the collector, not a console line
IsCollectorCall(e) == "op" \in DOMAIN e

IsCapture(e) == IsCollectorCall(e) /\ e.op \in {"captureException", "captureMessage"}

IsBreadcrumb(e) == IsCollectorCall(e) /\ e.op = "addBreadcrumb"

\* C21: every level call writes exactly one console line, and writes it
\* before any collector call of that invocation; in error and warn the
\* breadcrumb is added before the exception or message is captured, so no
\* capture precedes its own breadcrumb.
C21_ConsoleLineFirstBreadcrumbBeforeCapture ==
  [][ req'.op \in LevelOps =>
        /\ Len(console') = Len(console) + 1
        /\ Len(effects') >= 1
        /\ ~IsCollectorCall(effects'[1])
        /\ effects'[1] = console'[Len(console')]
        /\ \A i \in 2..Len(effects') : IsCollectorCall(effects'[i])
        /\ SubSeq(effects', 2, Len(effects')) = NewCalls
        /\ (req'.op \in {"error", "warn"} =>
              \A i \in 1..Len(effects') :
                IsCapture(effects'[i]) =>
                  \E j \in 1..(i - 1) : IsBreadcrumb(effects'[j])) ]_vars

\* a second call, logger.error with both flags set: line, breadcrumb, exception
C21_Witness ==
  /\ req.op = "error" /\ BothFlags
  /\ Len(console) = 2
  /\ Len(effects) = 3
  /\ effects[1] = console[2]
  /\ IsBreadcrumb(effects[2])
  /\ effects[3].op = "captureException"

C21_WitnessWarn ==
  /\ req.op = "warn" /\ BothFlags
  /\ Len(effects) = 3
  /\ effects[1] = console[Len(console)]
  /\ IsBreadcrumb(effects[2])
  /\ effects[3].op = "captureMessage"

\* a level call that forwards nothing still writes its one line
C21_WitnessConsoleOnly ==
  /\ req.op = "log" /\ ~env.SENTRY_ENABLED
  /\ Len(effects) = 1
  /\ effects[1] = console[Len(console)]

====
